---- MODULE Spec2Model ----
(***************************************************************************)
(* remove-async-await: the two attribute macros of src/src/lib.rs.         *)
(*                                                                         *)
(*   remove_async_await         parses the input as ItemFn, then as        *)
(*                              TraitItemMethod, folds it with the         *)
(*                              RemoveAsyncAwait folder, or emits a fixed  *)
(*                              compile_error! diagnostic.                 *)
(*   remove_async_await_string  renders the input to text, removes "async" *)
(*                              and then ".await", and re-lexes the text.  *)
(*                                                                         *)
(* A token stream is modelled by the syntax it spells: a declaration       *)
(* record (shape "fn") or an arbitrary token sequence (shape "other").     *)
(* Syntax trees are records tagged with the syn variant name.              *)
(***************************************************************************)
EXTENDS Integers, Sequences, FiniteSets, TLC

VARIABLES input, pc, output

vars == <<input, pc, output>>

(* ------------------------------ bounds --------------------------------- *)
MaxDepth == 2
MaxStmts == 2
MaxChain == 3
MaxStrDepth == 2
MaxToks == 3

(* --------------------------- syntax trees ------------------------------ *)
None == <<>>
Some(v) == <<v>>

Path(n) == [tag |-> "Path", name |-> n]
Await(e) == [tag |-> "Await", base |-> e]
Try(e) == [tag |-> "Try", expr |-> e]
Paren(e) == [tag |-> "Paren", expr |-> e]
Closure(a, e) == [tag |-> "Closure", asyncness |-> a, body |-> e]
Async(as, c, b) == [tag |-> "Async", attrs |-> as, capture |-> c, block |-> b]
Block(as, l, b) == [tag |-> "Block", attrs |-> as, label |-> l, block |-> b]
Macro(ts) == [tag |-> "Macro", tokens |-> ts]

Local(e) == [tag |-> "Local", init |-> e]
Semi(e) == [tag |-> "Semi", expr |-> e]
ExprStmt(e) == [tag |-> "Expr", expr |-> e]
ItemStmt(i) == [tag |-> "Item", item |-> i]

Signature(a, n) == [asyncness |-> a, ident |-> n]
ItemFn(as, v, s, b) == [tag |-> "Fn", attrs |-> as, vis |-> v, sig |-> s, block |-> b]
ImplItemMethod(s, b) == [sig |-> s, block |-> b]
TraitItemMethod(as, s, d) == [attrs |-> as, sig |-> s, default |-> d]
ItemImpl(ms) == [tag |-> "Impl", items |-> ms]
ItemTrait(ms) == [tag |-> "Trait", items |-> ms]

(* ---------------------- the RemoveAsyncAwait folder -------------------- *)
RECURSIVE fold_expr(_), fold_default_expr(_), fold_block(_), fold_stmt(_)
RECURSIVE fold_item(_), fold_item_fn(_), fold_trait_item_method(_)
RECURSIVE fold_impl_item_method(_), fold_stmts(_), fold_trait_items(_)
RECURSIVE fold_impl_items(_)

\* syn's default: every field of the signature is rebuilt as it was.
fold_signature(s) == s

\* syn's default: an attribute keeps its path and its tokens.
fold_attrs(as) == as

\* syn's default for Macro: the argument tokens are copied, not visited.
fold_macro(ts) == ts

fold_stmts(ss) ==
    IF ss = <<>> THEN <<>>
    ELSE <<fold_stmt(Head(ss))>> \o fold_stmts(Tail(ss))

fold_block(b) == fold_stmts(b)

fold_stmt(s) ==
    CASE s.tag = "Local" -> Local(fold_expr(s.init))
      [] s.tag = "Item" -> ItemStmt(fold_item(s.item))
      [] s.tag = "Expr" -> ExprStmt(fold_expr(s.expr))
      [] s.tag = "Semi" -> Semi(fold_expr(s.expr))

fold_impl_item_method(m) ==
    ImplItemMethod(fold_signature(m.sig), fold_block(m.block))

fold_impl_items(ms) ==
    IF ms = <<>> THEN <<>>
    ELSE <<fold_impl_item_method(Head(ms))>> \o fold_impl_items(Tail(ms))

fold_trait_items(ms) ==
    IF ms = <<>> THEN <<>>
    ELSE <<fold_trait_item_method(Head(ms))>> \o fold_trait_items(Tail(ms))

fold_item(i) ==
    CASE i.tag = "Fn" -> fold_item_fn(i)
      [] i.tag = "Impl" -> ItemImpl(fold_impl_items(i.items))
      [] i.tag = "Trait" -> ItemTrait(fold_trait_items(i.items))

fold_default_item_fn(i) ==
    ItemFn(fold_attrs(i.attrs), i.vis, fold_signature(i.sig), fold_block(i.block))

fold_default_trait_item_method(i) ==
    TraitItemMethod(fold_attrs(i.attrs), fold_signature(i.sig),
                    IF i.default = None THEN None
                    ELSE Some(fold_block(i.default[1])))

fold_item_fn(i) ==
    fold_default_item_fn([i EXCEPT !.sig.asyncness = FALSE])

fold_trait_item_method(i) ==
    fold_default_trait_item_method([i EXCEPT !.sig.asyncness = FALSE])

fold_default_expr(e) ==
    CASE e.tag = "Path" -> e
      [] e.tag = "Try" -> Try(fold_expr(e.expr))
      [] e.tag = "Paren" -> Paren(fold_expr(e.expr))
      [] e.tag = "Closure" -> Closure(e.asyncness, fold_expr(e.body))
      [] e.tag = "Block" -> Block(fold_attrs(e.attrs), e.label, fold_block(e.block))
      [] e.tag = "Macro" -> Macro(fold_macro(e.tokens))
      [] e.tag = "Await" -> Await(fold_expr(e.base))
      [] e.tag = "Async" -> Async(fold_attrs(e.attrs), e.capture, fold_block(e.block))

\* variant: the async block arm is missing
fold_expr_keep_async(e) ==
    CASE e.tag = "Await" -> fold_expr(e.base)
      [] OTHER -> fold_default_expr(e)

\* variant: the await arm returns the operand without folding it
fold_expr_one_layer(e) ==
    CASE e.tag = "Await" -> e.base
      [] e.tag = "Async" -> fold_expr(Block(e.attrs, None, e.block))
      [] OTHER -> fold_default_expr(e)

\* variant: the async block arm builds the block without the attributes
fold_expr_drop_attrs(e) ==
    CASE e.tag = "Await" -> fold_expr(e.base)
      [] e.tag = "Async" -> fold_expr(Block(<<>>, None, e.block))
      [] OTHER -> fold_default_expr(e)

\* variant: the async block arm returns the block without folding it
fold_expr_shallow_async(e) ==
    CASE e.tag = "Await" -> fold_expr(e.base)
      [] e.tag = "Async" -> Block(e.attrs, None, e.block)
      [] OTHER -> fold_default_expr(e)

\* variant: the block rebuilt with label None also for ordinary blocks
fold_expr_unlabel(e) ==
    CASE e.tag = "Await" -> fold_expr(e.base)
      [] e.tag \in {"Async", "Block"} -> fold_default_expr(Block(e.attrs, None, e.block))
      [] OTHER -> fold_default_expr(e)

\* variant: an arm that strips `. await` from macro arguments
fold_expr_macro_rewrite(e) ==
    CASE e.tag = "Await" -> fold_expr(e.base)
      [] e.tag = "Async" -> fold_expr(Block(e.attrs, None, e.block))
      [] e.tag = "Macro" -> Macro(SelectSeq(e.tokens, LAMBDA t : t \notin {".", "await"}))
      [] OTHER -> fold_default_expr(e)

fold_expr(e) ==
    CASE e.tag = "Await" -> fold_expr(e.base)
      [] e.tag = "Async" -> fold_expr(Block(e.attrs, None, e.block))
      [] OTHER -> fold_default_expr(e)

(* ------------------------------ inputs --------------------------------- *)
MacroArgs == <<"y", ".", "await">>
AwaitY == Await(Path("y"))
InnerBody == <<Semi(AwaitY)>>

TailSeq ==
    << Semi(AwaitY),
       ItemStmt(ItemFn(<<>>, FALSE, Signature(TRUE, "g"), InnerBody)),
       ItemStmt(ItemImpl(<<ImplItemMethod(Signature(TRUE, "g"), InnerBody)>>)),
       ItemStmt(ItemTrait(<<TraitItemMethod(<<>>, Signature(TRUE, "g"), None),
                            TraitItemMethod(<<>>, Signature(TRUE, "h"), Some(InnerBody))>>)),
       Semi(Macro(MacroArgs)),
       ItemStmt(ItemFn(<<>>, FALSE, Signature(FALSE, "g"), <<Semi(Path("y"))>>)) >>

\* statements without await or async block, some with an async signature
PlainTails ==
    { ItemStmt(ItemFn(<<>>, FALSE, Signature(TRUE, "g"), <<Semi(Path("y"))>>)),
      ItemStmt(ItemImpl(<<ImplItemMethod(Signature(TRUE, "g"), <<Semi(Path("y"))>>)>>)),
      ItemStmt(ItemTrait(<<TraitItemMethod(<<>>, Signature(TRUE, "g"), None)>>)),
      ItemStmt(ItemImpl(<<ImplItemMethod(Signature(FALSE, "g"), <<Semi(Path("y"))>>)>>)) }

\* the n statements of TailSeq from position i on, cyclically
Window(i, n) == [k \in 1..n |-> TailSeq[((i + k - 2) % Len(TailSeq)) + 1]]

BlocksOf(e) ==
    { <<Local(e)>> \o Window(i, MaxStmts - 1) : i \in 1..Len(TailSeq) }

Wrap(e) ==
    {Await(e), Try(e), Paren(Closure(TRUE, e)),
     Block(<<"a1">>, Some("l"), <<Local(e)>>),
     Async(<<>>, FALSE, <<Local(e)>>)}
    \cup { Async(<<"a1", "a2">>, TRUE, b) : b \in BlocksOf(e) }
    \cup { Block(<<>>, None, <<Local(e), t>>) : t \in PlainTails }

Leaves == {Path("x"), Paren(Macro(MacroArgs))}

RECURSIVE Exprs(_)
Exprs(d) ==
    IF d = 0 THEN Leaves
    ELSE LET P == Exprs(d - 1) IN P \cup UNION { Wrap(e) : e \in P }

Headers ==
    {[attrs |-> <<>>, vis |-> FALSE], [attrs |-> <<"test">>, vis |-> FALSE],
     [attrs |-> <<>>, vis |-> TRUE]}

PlainHeader == [attrs |-> <<>>, vis |-> FALSE]

Decl(h, a, b) ==
    [shape |-> "fn", attrs |-> h.attrs, vis |-> h.vis, sig |-> Signature(a, "f"),
     body |-> b]

DeclsOver(E) ==
    { Decl(h, a, b) : h \in Headers, a \in BOOLEAN,
                      b \in {None} \cup { Some(<<Local(e), ExprStmt(Path("v"))>>) : e \in E } }

Other(ts) == [shape |-> "other", tokens |-> ts]

Unsupported ==
    {Other(<<"struct", "S", ";">>), Other(<<"struct", "m_async_v", ";">>),
     Other(<<"impl", "T", "{", "}">>)}

Inputs == DeclsOver(Exprs(MaxDepth)) \cup Unsupported

(* ----------------------------- dispatch -------------------------------- *)
Err == [ok |-> FALSE]
Ok(v) == [ok |-> TRUE, item |-> v]

\* syn::parse::<ItemFn>: attributes, visibility, signature, and a body block
parse_ItemFn(i) ==
    IF i.shape = "fn" /\ i.body # None
    THEN Ok(ItemFn(i.attrs, i.vis, i.sig, i.body[1]))
    ELSE Err

\* syn::parse::<TraitItemMethod>: attributes, signature, then a block or `;`
parse_TraitItemMethod(i) ==
    IF i.shape = "fn" /\ ~i.vis
    THEN Ok(TraitItemMethod(i.attrs, i.sig, i.body))
    ELSE Err

quote_compile_error == <<"compile_error", "!", "(", "msg", ")">>

compile_error == [kind |-> "compile_error", tokens |-> quote_compile_error]

\* variant: no second parse attempt
remove_async_await_fn_no_trait(i) ==
    LET f == parse_ItemFn(i) IN
    IF f.ok THEN [kind |-> "ItemFn", item |-> fold_item_fn(f.item)]
    ELSE compile_error

remove_async_await_fn(i) ==
    LET f == parse_ItemFn(i) IN
    IF f.ok THEN [kind |-> "ItemFn", item |-> fold_item_fn(f.item)]
    ELSE LET m == parse_TraitItemMethod(i) IN
         IF m.ok THEN [kind |-> "TraitItemMethod", item |-> fold_trait_item_method(m.item)]
         ELSE compile_error

(* ------------------------------ machine -------------------------------- *)
Init ==
    /\ input \in Inputs
    /\ pc = "start"
    /\ output = [kind |-> "none"]

remove_async_await ==
    /\ pc = "start"
    /\ output' = remove_async_await_fn(input)
    /\ pc' = "done"
    /\ UNCHANGED input

Next == remove_async_await

Spec == Init /\ [][Next]_vars

Done == pc = "done"

(* ------------------------- tokens and text ----------------------------- *)
RECURSIVE ExprTokens(_), StmtTokens(_), BlockTokens(_), ItemTokens(_)
RECURSIVE AttrTokens(_), MethodTokens(_)

AttrTokens(as) ==
    IF as = <<>> THEN <<>>
    ELSE <<"#", "[", Head(as), "]">> \o AttrTokens(Tail(as))

BracedTokens(b) == <<"{">> \o BlockTokens(b) \o <<"}">>

\* attributes, visibility, signature, then the body block or `;`
FnTokens(as, v, s, body) ==
    AttrTokens(as) \o (IF v THEN <<"pub">> ELSE <<>>)
    \o (IF s.asyncness THEN <<"async">> ELSE <<>>)
    \o <<"fn", s.ident, "(", ")">>
    \o (IF body = None THEN <<";">> ELSE BracedTokens(body[1]))

BlockTokens(b) ==
    IF b = <<>> THEN <<>> ELSE StmtTokens(Head(b)) \o BlockTokens(Tail(b))

ExprTokens(e) ==
    CASE e.tag = "Path" -> <<e.name>>
      [] e.tag = "Await" -> ExprTokens(e.base) \o <<".", "await">>
      [] e.tag = "Try" -> ExprTokens(e.expr) \o <<"?">>
      [] e.tag = "Paren" -> <<"(">> \o ExprTokens(e.expr) \o <<")">>
      [] e.tag = "Closure" ->
            (IF e.asyncness THEN <<"async">> ELSE <<>>) \o <<"|", "|">> \o ExprTokens(e.body)
      [] e.tag = "Async" ->
            AttrTokens(e.attrs) \o <<"async">>
            \o (IF e.capture THEN <<"move">> ELSE <<>>) \o BracedTokens(e.block)
      [] e.tag = "Block" ->
            AttrTokens(e.attrs)
            \o (IF e.label = None THEN <<>> ELSE <<"'l", ":">>) \o BracedTokens(e.block)
      [] e.tag = "Macro" -> <<"m", "!", "(">> \o e.tokens \o <<")">>

StmtTokens(s) ==
    CASE s.tag = "Local" -> <<"let", "v", "=">> \o ExprTokens(s.init) \o <<";">>
      [] s.tag = "Item" -> ItemTokens(s.item)
      [] s.tag = "Expr" -> ExprTokens(s.expr)
      [] s.tag = "Semi" -> ExprTokens(s.expr) \o <<";">>

MethodTokens(ms) ==
    IF ms = <<>> THEN <<>>
    ELSE (IF "block" \in DOMAIN Head(ms)
          THEN FnTokens(<<>>, FALSE, Head(ms).sig, Some(Head(ms).block))
          ELSE FnTokens(Head(ms).attrs, FALSE, Head(ms).sig, Head(ms).default))
         \o MethodTokens(Tail(ms))

ItemTokens(i) ==
    CASE i.tag = "Fn" -> FnTokens(i.attrs, i.vis, i.sig, Some(i.block))
      [] i.tag = "Impl" -> <<"impl", "T", "{">> \o MethodTokens(i.items) \o <<"}">>
      [] i.tag = "Trait" -> <<"trait", "T", "{">> \o MethodTokens(i.items) \o <<"}">>

\* the token stream the attribute macro receives
InputTokens(i) ==
    IF i.shape = "fn" THEN FnTokens(i.attrs, i.vis, i.sig, i.body) ELSE i.tokens

\* to_token_stream of a folded declaration
to_token_stream(o) ==
    IF "block" \in DOMAIN o THEN FnTokens(o.attrs, o.vis, o.sig, Some(o.block))
    ELSE FnTokens(o.attrs, FALSE, o.sig, o.default)

\* the characters of a token
Chars(t) ==
    CASE t = "async" -> <<"a", "s", "y", "n", "c">>
      [] t = "await" -> <<"a", "w", "a", "i", "t">>
      [] t = "fn" -> <<"f", "n">>
      [] t = "pub" -> <<"p", "u", "b">>
      [] t = "let" -> <<"l", "e", "t">>
      [] t = "impl" -> <<"i", "m", "p", "l">>
      [] t = "trait" -> <<"t", "r", "a", "i", "t">>
      [] t = "struct" -> <<"s", "t", "r", "u", "c", "t">>
      [] t = "move" -> <<"m", "o", "v", "e">>
      [] t = "m" -> <<"m">>
      [] t = "f" -> <<"f">>
      [] t = "g" -> <<"g">>
      [] t = "h" -> <<"h">>
      [] t = "v" -> <<"v">>
      [] t = "x" -> <<"x">>
      [] t = "y" -> <<"y">>
      [] t = "S" -> <<"S">>
      [] t = "T" -> <<"T">>
      [] t = "a" -> <<"a">>
      [] t = "a1" -> <<"a", "1">>
      [] t = "a2" -> <<"a", "2">>
      [] t = "test" -> <<"t", "e", "s", "t">>
      [] t = "'l" -> <<"'", "l">>
      [] t = "asasyncync" -> <<"a", "s", "a", "s", "y", "n", "c", "y", "n", "c">>
      [] t = "m_async_v" -> <<"m", "_", "a", "s", "y", "n", "c", "_", "v">>
      [] t = "awaitwait" -> <<"a", "w", "a", "i", "t", "w", "a", "i", "t">>
      [] t = "#" -> <<"#">>
      [] t = "[" -> <<"[">>
      [] t = "]" -> <<"]">>
      [] t = "(" -> <<"(">>
      [] t = ")" -> <<")">>
      [] t = "{" -> <<"{">>
      [] t = "}" -> <<"}">>
      [] t = ";" -> <<";">>
      [] t = "=" -> <<"=">>
      [] t = "|" -> <<"|">>
      [] t = "?" -> <<"?">>
      [] t = "." -> <<".">>
      [] t = ":" -> <<":">>
      [] t = "!" -> <<"!">>

RECURSIVE to_string(_)
\* TokenStream::to_string: tokens separated by a space, `.` written tight
to_string(ts) ==
    IF ts = <<>> THEN <<>>
    ELSE IF Len(ts) = 1 THEN Chars(ts[1])
    ELSE LET h == Len(ts) \div 2 IN
         to_string(SubSeq(ts, 1, h))
         \o (IF ts[h] = "." \/ ts[h + 1] = "." THEN <<>> ELSE <<" ">>)
         \o to_string(SubSeq(ts, h + 1, Len(ts)))

async_pat == <<"a", "s", "y", "n", "c">>
await_pat == <<".", "a", "w", "a", "i", "t">>

\* the positions of s where pat starts
Matches(s, pat) ==
    { p \in 1..(Len(s) - Len(pat) + 1) : SubSeq(s, p, p + Len(pat) - 1) = pat }

Min(S) == CHOOSE x \in S : \A y \in S : x <= y

\* variant: only the first occurrence is removed (replacen(.., 1))
replace_first_only(s, pat) ==
    IF Matches(s, pat) = {} THEN s
    ELSE LET p == Min(Matches(s, pat)) IN
         SubSeq(s, 1, p - 1) \o SubSeq(s, p + Len(pat), Len(s))

RECURSIVE replace(_, _)
\* str::replace(pat, ""): the non-overlapping matches, found left to right
replace(s, pat) ==
    IF Matches(s, pat) = {} THEN s
    ELSE LET p == Min(Matches(s, pat)) IN
         SubSeq(s, 1, p - 1) \o replace(SubSeq(s, p + Len(pat), Len(s)), pat)

PunctChars == {"#", "[", "]", "(", ")", "{", "}", ";", "=", "|", "?", ".", ":", "!"}

IsWordChar(c) == c # " " /\ c \notin PunctChars

\* the tokens of s that start in lo..hi
RECURSIVE lex_range(_, _, _)
lex_range(s, lo, hi) ==
    IF lo > hi THEN <<>>
    ELSE IF lo = hi THEN
        IF s[lo] = " " \/ (IsWordChar(s[lo]) /\ lo > 1 /\ IsWordChar(s[lo - 1])) THEN <<>>
        ELSE IF ~IsWordChar(s[lo]) THEN <<<<s[lo]>>>>
        ELSE LET stops == { q \in lo..Len(s) : ~IsWordChar(s[q]) }
                 end == IF stops = {} THEN Len(s) ELSE Min(stops) - 1
             IN <<SubSeq(s, lo, end)>>
    ELSE LET mid == (lo + hi) \div 2 IN
         lex_range(s, lo, mid) \o lex_range(s, mid + 1, hi)

\* str::parse::<TokenStream>: words are maximal runs of word characters,
\* every punctuation character is a token, spaces separate
lex(s) == lex_range(s, 1, Len(s))

\* variant: only "async" is removed
remove_async_await_string_fn_keep_await(i) ==
    LET text == replace(to_string(InputTokens(i)), async_pat) IN
    [kind |-> "tokens", text |-> text, tokens |-> lex(text)]

remove_async_await_string_fn(i) ==
    LET text == replace(replace(to_string(InputTokens(i)), async_pat), await_pat) IN
    [kind |-> "tokens", text |-> text, tokens |-> lex(text)]

(* --------------------- inputs of the string macro ---------------------- *)
OddTokens == {"asasyncync", "m_async_v", "awaitwait", "a", ".", "await", "async"}

RECURSIVE TokSeqs(_)
TokSeqs(n) ==
    IF n = 0 THEN {<<>>}
    ELSE LET P == TokSeqs(n - 1) IN P \cup { Append(p, t) : p \in { q \in P : Len(q) = n - 1 }, t \in OddTokens }

\* `async fn f() { let v = (m!( ...any tokens... )); v }`
OddDecls ==
    { Decl(PlainHeader, TRUE, Some(<<Local(Paren(Macro(ts))), ExprStmt(Path("v"))>>)) :
        ts \in TokSeqs(MaxToks) }

StringInputs ==
    { Decl(PlainHeader, a, b) :
        a \in BOOLEAN,
        b \in {None} \cup { Some(<<Local(e), ExprStmt(Path("v"))>>) : e \in Exprs(MaxStrDepth) } }
    \cup OddDecls \cup Unsupported

InitString ==
    /\ input \in StringInputs
    /\ pc = "start"
    /\ output = [kind |-> "none"]

remove_async_await_string ==
    /\ pc = "start"
    /\ output' = remove_async_await_string_fn(input)
    /\ pc' = "done"
    /\ UNCHANGED input

NextString == remove_async_await_string

SpecString == InitString /\ [][NextString]_vars

(* ------------------ predicates over syntax trees ----------------------- *)
RECURSIVE ExprHasMarker(_), StmtHasMarker(_), ItemHasMarker(_)

BlockHasMarker(b) == \E k \in 1..Len(b) : StmtHasMarker(b[k])

\* an await expression or an async block expression occurs in the tree
ExprHasMarker(e) ==
    CASE e.tag \in {"Await", "Async"} -> TRUE
      [] e.tag \in {"Try", "Paren"} -> ExprHasMarker(e.expr)
      [] e.tag = "Closure" -> ExprHasMarker(e.body)
      [] e.tag = "Block" -> BlockHasMarker(e.block)
      [] OTHER -> FALSE

StmtHasMarker(s) ==
    CASE s.tag = "Local" -> ExprHasMarker(s.init)
      [] s.tag = "Item" -> ItemHasMarker(s.item)
      [] OTHER -> ExprHasMarker(s.expr)

ItemHasMarker(i) ==
    CASE i.tag = "Fn" -> BlockHasMarker(i.block)
      [] i.tag = "Impl" -> \E k \in 1..Len(i.items) : BlockHasMarker(i.items[k].block)
      [] i.tag = "Trait" ->
            \E k \in 1..Len(i.items) :
                i.items[k].default # None /\ BlockHasMarker(i.items[k].default[1])

RECURSIVE ExprHasAsyncSig(_), StmtHasAsyncSig(_), ItemHasAsyncSig(_)

BlockHasAsyncSig(b) == \E k \in 1..Len(b) : StmtHasAsyncSig(b[k])

\* a function or method signature in the tree carries the async qualifier
ExprHasAsyncSig(e) ==
    CASE e.tag = "Await" -> ExprHasAsyncSig(e.base)
      [] e.tag \in {"Try", "Paren"} -> ExprHasAsyncSig(e.expr)
      [] e.tag = "Closure" -> ExprHasAsyncSig(e.body)
      [] e.tag \in {"Block", "Async"} -> BlockHasAsyncSig(e.block)
      [] OTHER -> FALSE

StmtHasAsyncSig(s) ==
    CASE s.tag = "Local" -> ExprHasAsyncSig(s.init)
      [] s.tag = "Item" -> ItemHasAsyncSig(s.item)
      [] OTHER -> ExprHasAsyncSig(s.expr)

ItemHasAsyncSig(i) ==
    CASE i.tag = "Fn" -> i.sig.asyncness \/ BlockHasAsyncSig(i.block)
      [] i.tag = "Impl" ->
            \E k \in 1..Len(i.items) :
                i.items[k].sig.asyncness \/ BlockHasAsyncSig(i.items[k].block)
      [] i.tag = "Trait" ->
            \E k \in 1..Len(i.items) :
                \/ i.items[k].sig.asyncness
                \/ i.items[k].default # None /\ BlockHasAsyncSig(i.items[k].default[1])

RECURSIVE ExprMacros(_), StmtMacros(_), ItemMacros(_), BlockMacros(_), MethodMacros(_)

\* the argument tokens of the macro calls of a tree, in source order
BlockMacros(b) == IF b = <<>> THEN <<>> ELSE StmtMacros(Head(b)) \o BlockMacros(Tail(b))

ExprMacros(e) ==
    CASE e.tag = "Macro" -> <<e.tokens>>
      [] e.tag = "Await" -> ExprMacros(e.base)
      [] e.tag \in {"Try", "Paren"} -> ExprMacros(e.expr)
      [] e.tag = "Closure" -> ExprMacros(e.body)
      [] e.tag \in {"Block", "Async"} -> BlockMacros(e.block)
      [] OTHER -> <<>>

StmtMacros(s) ==
    CASE s.tag = "Local" -> ExprMacros(s.init)
      [] s.tag = "Item" -> ItemMacros(s.item)
      [] OTHER -> ExprMacros(s.expr)

MethodMacros(ms) ==
    IF ms = <<>> THEN <<>>
    ELSE (IF "block" \in DOMAIN Head(ms) THEN BlockMacros(Head(ms).block)
          ELSE IF Head(ms).default = None THEN <<>>
          ELSE BlockMacros(Head(ms).default[1]))
         \o MethodMacros(Tail(ms))

ItemMacros(i) ==
    CASE i.tag = "Fn" -> BlockMacros(i.block)
      [] OTHER -> MethodMacros(i.items)

\* the body of a parsed or folded declaration, None for a bare signature
BodyOf(o) ==
    IF "block" \in DOMAIN o THEN Some(o.block) ELSE o.default

Supported == parse_ItemFn(input).ok \/ parse_TraitItemMethod(input).ok

\* the declaration the dispatcher hands to the folder
Parsed ==
    IF parse_ItemFn(input).ok THEN parse_ItemFn(input).item
    ELSE parse_TraitItemMethod(input).item

Refold(o) ==
    IF output.kind = "ItemFn" THEN fold_item_fn(o) ELSE fold_trait_item_method(o)

\* the initialiser of the body's first statement, before and after the fold
InExpr == input.body[1][1].init
OutExpr == BodyOf(output.item)[1][1].init
HasBody == Supported /\ input.body # None

(* ------------------------------ claims --------------------------------- *)
OutBody == BodyOf(output.item)

\* C1: a supported input yields a declaration of the same kind; a bare
\* signature stays bare; the signature is not async; the body holds no await
\* expression and no async block expression at any depth.
C1_NoMarkersLeft ==
    (Done /\ Supported) =>
        /\ output.kind = (IF parse_ItemFn(input).ok THEN "ItemFn" ELSE "TraitItemMethod")
        /\ (input.body = None <=> OutBody = None)
        /\ ~output.item.sig.asyncness
        /\ (OutBody # None => ~BlockHasMarker(OutBody[1]))

C1_Witness ==
    /\ Done /\ HasBody /\ input.sig.asyncness
    /\ InExpr.tag = "Async" /\ BlockHasMarker(InExpr.block)
    /\ output.kind = "ItemFn"

\* C2: the outcome is the folded ItemFn if the input parses as one, else the
\* folded TraitItemMethod if it parses as one, else the one fixed diagnostic.
C2_ThreeOutcomes ==
    Done =>
        /\ output.kind \in {"ItemFn", "TraitItemMethod", "compile_error"}
        /\ parse_ItemFn(input).ok =>
               output = [kind |-> "ItemFn", item |-> fold_item_fn(parse_ItemFn(input).item)]
        /\ (~parse_ItemFn(input).ok /\ parse_TraitItemMethod(input).ok) =>
               output = [kind |-> "TraitItemMethod",
                         item |-> fold_trait_item_method(parse_TraitItemMethod(input).item)]
        /\ (~parse_ItemFn(input).ok /\ ~parse_TraitItemMethod(input).ok) =>
               output = compile_error
        /\ input.shape = "other" => output = compile_error
        /\ (input.shape = "fn" /\ input.body = None /\ ~input.vis) =>
               output.kind = "TraitItemMethod"

C2_Witness ==
    Done /\ input = Other(<<"struct", "S", ";">>) /\ output = compile_error

RECURSIVE AwaitN(_, _)
AwaitN(n, e) == IF n = 0 THEN e ELSE Await(AwaitN(n - 1, e))

\* C3: a chain of n >= 1 awaits around E folds to fold(E); in particular
\* await(await(E)) folds to fold(E) and no await layer survives.
C3_AwaitChain ==
    (Done /\ HasBody) =>
        /\ \A n \in 1..MaxChain : fold_expr(AwaitN(n, InExpr)) = OutExpr
        /\ (InExpr.tag = "Await" /\ InExpr.base.tag = "Await") =>
               (OutExpr = fold_expr(InExpr.base.base) /\ OutExpr.tag # "Await")

C3_Witness ==
    /\ Done /\ HasBody
    /\ InExpr.tag = "Await" /\ InExpr.base.tag = "Await"
    /\ OutExpr = InExpr.base.base

\* the async block a C4 case is about: the expression itself or its operand
AsyncOf(e) == IF e.tag = "Await" THEN e.base ELSE e

\* C4: an async block with attributes A and block B folds to an ordinary
\* block with attributes A whose statements are those of B, in order, each
\* folded; the same when the async block is the operand of an await.
C4_AsyncBlock ==
    (Done /\ HasBody /\ AsyncOf(InExpr).tag = "Async") =>
        LET a == AsyncOf(InExpr) IN
        /\ OutExpr.tag = "Block"
        /\ OutExpr.attrs = a.attrs
        /\ OutExpr.label = None
        /\ Len(OutExpr.block) = Len(a.block)
        /\ \A k \in 1..Len(a.block) : OutExpr.block[k] = fold_stmt(a.block[k])

C4_Witness ==
    /\ Done /\ HasBody
    /\ InExpr.tag = "Await" /\ InExpr.base.tag = "Async"
    /\ InExpr.base.attrs # <<>> /\ Len(InExpr.base.block) >= 2
    /\ OutExpr.tag = "Block"

\* C5: folding the folded declaration again changes nothing.
C5_Idempotent ==
    (Done /\ Supported) => Refold(output.item) = output.item

C5_Witness ==
    /\ Done /\ HasBody /\ InExpr.tag = "Await"
    /\ output.item # Parsed /\ Refold(output.item) = output.item

NoMarkers == input.body = None \/ ~BlockHasMarker(input.body[1])
NoNestedAsyncSig == input.body = None \/ ~BlockHasAsyncSig(input.body[1])

\* C6 as stated: without await and async block, the fold changes nothing
\* but the declaration's own async qualifier.
C6_OnlyOwnQualifier ==
    (Done /\ Supported /\ NoMarkers) =>
        /\ output.item = [Parsed EXCEPT !.sig.asyncness = FALSE]
        /\ ~input.sig.asyncness => output.item = Parsed

\* C6 amended: without await, async block and async qualifier on a nested
\* function or method signature, the fold changes nothing but the
\* declaration's own async qualifier; without that one too, nothing at all.
C6_OnlyOwnQualifierAmended ==
    (Done /\ Supported /\ NoMarkers /\ NoNestedAsyncSig) =>
        /\ output.item = [Parsed EXCEPT !.sig.asyncness = FALSE]
        /\ ~input.sig.asyncness => output.item = Parsed

C6_Witness ==
    /\ Done /\ HasBody /\ NoMarkers /\ NoNestedAsyncSig
    /\ input.sig.asyncness /\ input.attrs # <<>>
    /\ InExpr.tag = "Block" /\ InExpr.label # None
    /\ output.item = [Parsed EXCEPT !.sig.asyncness = FALSE]

\* C8: the argument tokens of every macro call of the body are the same
\* after the fold, so an await written there is still there.
C8_MacroArgsKept ==
    (Done /\ HasBody) => BlockMacros(OutBody[1]) = BlockMacros(input.body[1])

C8_Witness ==
    /\ Done /\ HasBody /\ BlockHasMarker(input.body[1])
    /\ \E k \in 1..Len(BlockMacros(OutBody[1])) :
           \E j \in 1..Len(BlockMacros(OutBody[1])[k]) :
               BlockMacros(OutBody[1])[k][j] = "await"

\* C9: after the fold no function or method signature of the output is
\* async, neither the declaration's own nor one nested in its body.
C9_NoAsyncSignature ==
    (Done /\ Supported) =>
        /\ ~output.item.sig.asyncness
        /\ OutBody # None => ~BlockHasAsyncSig(OutBody[1])

(* ------------------------- claims on the text -------------------------- *)
InText == to_string(InputTokens(input))

OccursAt(s, pat, p) ==
    p + Len(pat) - 1 <= Len(s) /\ SubSeq(s, p, p + Len(pat) - 1) = pat

Contains(s, pat) == \E p \in 1..Len(s) : OccursAt(s, pat, p)

\* every "async" of the text is a whole word and every ".await" ends a word
WholeWords(s) ==
    \A p \in 1..Len(s) :
        /\ OccursAt(s, async_pat, p) =>
              /\ p = 1 \/ ~IsWordChar(s[p - 1])
              /\ p + 5 > Len(s) \/ ~IsWordChar(s[p + 5])
        /\ OccursAt(s, await_pat, p) => (p + 6 > Len(s) \/ ~IsWordChar(s[p + 6]))

CharsOf(ts) == [k \in 1..Len(ts) |-> Chars(ts[k])]

\* the tokens remove_async_await returns for the same input
StructuralTokens == CharsOf(to_token_stream(remove_async_await_fn(input).item))

RECURSIVE ExprRewritable(_), StmtRewritable(_), ItemRewritable(_)

BlockRewritable(b) == \A k \in 1..Len(b) : StmtRewritable(b[k])

\* async appears only where the folder clears it (fn items, trait methods,
\* async blocks without move) and await only as an expression it visits
ExprRewritable(e) ==
    CASE e.tag = "Path" -> TRUE
      [] e.tag = "Await" -> ExprRewritable(e.base)
      [] e.tag \in {"Try", "Paren"} -> ExprRewritable(e.expr)
      [] e.tag = "Closure" -> ~e.asyncness /\ ExprRewritable(e.body)
      [] e.tag = "Async" -> ~e.capture /\ BlockRewritable(e.block)
      [] e.tag = "Block" -> BlockRewritable(e.block)
      [] e.tag = "Macro" ->
            /\ ~Contains(to_string(e.tokens), async_pat)
            /\ ~Contains(<<"(">> \o to_string(e.tokens), await_pat)

StmtRewritable(s) ==
    CASE s.tag = "Local" -> ExprRewritable(s.init)
      [] s.tag = "Item" -> ItemRewritable(s.item)
      [] OTHER -> ExprRewritable(s.expr)

ItemRewritable(i) ==
    CASE i.tag = "Fn" -> BlockRewritable(i.block)
      [] i.tag = "Impl" ->
            \A k \in 1..Len(i.items) :
                ~i.items[k].sig.asyncness /\ BlockRewritable(i.items[k].block)
      [] i.tag = "Trait" ->
            \A k \in 1..Len(i.items) :
                i.items[k].default = None \/ BlockRewritable(i.items[k].default[1])

Rewritable == input.body = None \/ BlockRewritable(input.body[1])

C10_NoSubstringLeft ==
    Done => (~Contains(output.text, async_pat) /\ ~Contains(output.text, await_pat))

\* C10 amended: the text differs from the input text exactly when the input
\* contains "async" or ".await" (an identifier containing one is changed);
\* it contains neither substring when every occurrence in the input is a
\* whole word, but removal inside a word can join a new occurrence.
C10_SubstringsRemovedAmended ==
    Done =>
        /\ (Contains(InText, async_pat) \/ Contains(InText, await_pat)) <=> output.text # InText
        /\ WholeWords(InText) =>
              (~Contains(output.text, async_pat) /\ ~Contains(output.text, await_pat))

C10_Witness ==
    /\ Done /\ input.shape = "fn" /\ input.body # None
    /\ InExpr.tag = "Paren" /\ InExpr.expr.tag = "Macro"
    /\ InExpr.expr.tokens = <<"m_async_v">>
    /\ output.text # InText
    /\ ~Contains(output.text, async_pat)
====
